---- MODULE Spec2Model ----
(***************************************************************************)
(* ZIP ingestion (src/src/ingest_data.py): ZipDataIngestor.ingest and      *)
(* DataIngestionFactory.  Strings are tuples of one-character strings, so  *)
(* that lower(), endswith(), basename() and splitext() are computed.       *)
(***************************************************************************)
EXTENDS Integers, Sequences, FiniteSets, TLC

VARIABLES fs, fs0, order, call, left, fpath, fresult

vars == <<fs, fs0, order, call, left, fpath, fresult>>

(* ------------------------------ bounds --------------------------------- *)

\* number of ingest calls the sequential caller makes
MaxCalls == 2

\* longest path handed to the factory
MaxPathLen == 6

(* ------------------------------ strings -------------------------------- *)

\* str.lower() on the letters that occur in the model
Lower(ch) ==
    CASE ch = "Z" -> "z"
      [] ch = "I" -> "i"
      [] ch = "P" -> "p"
      [] ch = "C" -> "c"
      [] ch = "S" -> "s"
      [] ch = "V" -> "v"
      [] OTHER -> ch

LowerStr(s) == [i \in 1..Len(s) |-> Lower(s[i])]

\* str.endswith(suffix)
EndsWith(s, suf) ==
    /\ Len(s) >= Len(suf)
    /\ SubSeq(s, Len(s) - Len(suf) + 1, Len(s)) = suf

\* str.rfind(ch), 1-based; 0 when ch does not occur
RFind(s, ch) ==
    LET hits == {i \in 1..Len(s) : s[i] = ch}
    IN  IF hits = {} THEN 0 ELSE CHOOSE i \in hits : \A j \in hits : j <= i

\* os.path.basename
Basename(p) == SubSeq(p, RFind(p, "/") + 1, Len(p))

\* os.path.splitext: <<root, ext>>; leading dots of the last component
\* never start an extension
Splitext(p) ==
    LET sepIndex == RFind(p, "/")
        dotIndex == RFind(p, ".")
    IN  IF /\ dotIndex > sepIndex
           /\ \E k \in (sepIndex + 1)..(dotIndex - 1) : p[k] # "."
        THEN <<SubSeq(p, 1, dotIndex - 1), SubSeq(p, dotIndex, Len(p))>>
        ELSE <<p, <<>>>>

DotZip == <<".", "z", "i", "p">>
DotCsv == <<".", "c", "s", "v">>
DotTsv == <<".", "t", "s", "v">>

\* f.lower().endswith(('.csv', '.tsv'))
IsDataFile(f) ==
    \/ EndsWith(LowerStr(f), DotCsv)
    \/ EndsWith(LowerStr(f), DotTsv)

(* ------------------------------ tables --------------------------------- *)

Comma == ","
Tab == "\t"
NaN == <<"NaN">>

\* one line of text split at the separator; a field is the tuple of the
\* tokens between two separators
RECURSIVE SplitLine(_, _, _)
SplitLine(line, sep, cur) ==
    IF line = <<>> THEN <<cur>>
    ELSE IF Head(line) = sep
         THEN <<cur>> \o SplitLine(Tail(line), sep, <<>>)
         ELSE SplitLine(Tail(line), sep, Append(cur, Head(line)))

\* pd.read_csv(p, sep=...): first line is the header, index is 0..n-1
PdReadCsv(text, sep) ==
    LET n == Len(text) - 1
    IN  [columns |-> SplitLine(text[1], sep, <<>>),
         index   |-> [i \in 1..n |-> i - 1],
         rows    |-> [i \in 1..n |-> SplitLine(text[i + 1], sep, <<>>)]]

\* the branch of lines 75-78 / 89-92: tab for .tsv, comma otherwise
ReadDataFile(name, text) ==
    IF EndsWith(LowerStr(name), DotTsv)
    THEN PdReadCsv(text, Tab)
    ELSE PdReadCsv(text, Comma)

SeqToSet(s) == {s[i] : i \in 1..Len(s)}

RECURSIVE UnionColumns(_)
UnionColumns(dfs) ==
    IF dfs = <<>> THEN <<>>
    ELSE LET rest == UnionColumns(SubSeq(dfs, 1, Len(dfs) - 1))
             last == dfs[Len(dfs)].columns
         IN  rest \o SelectSeq(last, LAMBDA c : c \notin SeqToSet(rest))

\* a row re-aligned by column name, NaN where the frame has no such column
AlignRow(row, from, to) ==
    [i \in 1..Len(to) |->
        IF \E j \in 1..Len(from) : from[j] = to[i]
        THEN row[CHOOSE j \in 1..Len(from) : from[j] = to[i]]
        ELSE NaN]

RECURSIVE StackRows(_, _)
StackRows(dfs, cols) ==
    IF dfs = <<>> THEN <<>>
    ELSE [i \in 1..Len(Head(dfs).rows) |->
             AlignRow(Head(dfs).rows[i], Head(dfs).columns, cols)]
         \o StackRows(Tail(dfs), cols)

RECURSIVE StackIndex(_)
StackIndex(dfs) ==
    IF dfs = <<>> THEN <<>> ELSE Head(dfs).index \o StackIndex(Tail(dfs))

\* pd.concat(dfs, ignore_index=...)
PdConcat(dfs, ignore_index) ==
    LET cols == UnionColumns(dfs)
        rows == StackRows(dfs, cols)
    IN  [columns |-> cols,
         index   |-> IF ignore_index
                     THEN [i \in 1..Len(rows) |-> i - 1]
                     ELSE StackIndex(dfs),
         rows    |-> rows]

NoTable == [columns |-> <<>>, index |-> <<>>, rows |-> <<>>]

(* --------------------------- files on disk ----------------------------- *)

\* names that can appear in a directory listing
NameA == <<"a", ".", "c", "s", "v">>
NameB == <<"b", ".", "C", "S", "V">>
NameT == <<"t", ".", "t", "s", "v">>
NameR == <<"r", ".", "t", "x", "t">>
NameSub == <<"s", "u", "b">>
NameOld == <<"o", ".", "c", "s", "v">>
NameIn == <<"i", ".", "c", "s", "v">>

Names == {NameA, NameB, NameT, NameR, NameSub, NameOld}

\* file contents: lines of tokens (fields and separator characters)
TextXY2 == << <<"x", ",", "y">>, <<"1", ",", "2">>, <<"3", ",", "4">> >>
TextXY1 == << <<"x", ",", "y">>, <<"5", ",", "6">> >>
TextXZ == << <<"x", "\t", "z">>, <<"7", "\t", "8">> >>
TextNote == << <<"hello">> >>

Absent == [kind |-> "absent", text |-> <<>>]
File(text) == [kind |-> "file", text |-> text]
SubDir == [kind |-> "dir", text |-> <<>>]

\* a member of an archive: `top` is the first component of its name (what
\* a listing of the extraction directory shows), `leaf` the last one;
\* nested members live below the directory `top`
Member(top, leaf, text) == [top |-> top, leaf |-> leaf, nested |-> top # leaf, text |-> text]

PathMissing == <<"r", "/", "m", ".", "z", "i", "p">>
PathText == <<"r", "/", "t", ".", "z", "i", "p">>
PathEmpty == <<"r", "/", "e", ".", "z", "i", "p">>
PathNoData == <<"s", "/", "a", ".", "z", "i", "p">>
PathSingle == <<"r", "/", "a", ".", "z", "i", "p">>
PathTwo == <<"r", "/", "b", ".", "z", "i", "p">>
PathMixed == <<"r", "/", "c", ".", "Z", "I", "P">>
PathNested == <<"r", "/", "n">>

ArchivePaths ==
    {PathMissing, PathText, PathEmpty, PathNoData, PathSingle, PathTwo,
     PathMixed, PathNested}

\* os.path.exists(file_path)
PathExists(path) == path \in ArchivePaths \ {PathMissing}

\* zipfile.is_zipfile(file_path): decided by the file's content, not its name
IsZipfile(path) == path \in ArchivePaths \ {PathMissing, PathText}

\* ZipFile(file_path).namelist() with the members' contents, in archive order
ZipMembers(path) ==
    CASE path = PathNoData -> << Member(NameR, NameR, TextNote) >>
      [] path = PathSingle -> << Member(NameA, NameA, TextXY2) >>
      [] path = PathTwo    -> << Member(NameA, NameA, TextXY1),
                                 Member(NameB, NameB, TextXY2) >>
      [] path = PathMixed  -> << Member(NameT, NameT, TextXZ),
                                 Member(NameR, NameR, TextNote),
                                 Member(NameA, NameA, TextXY2) >>
      [] path = PathNested -> << Member(NameSub, NameIn, TextXY1) >>
      [] OTHER -> <<>>

(* ----------------------------- directories ----------------------------- *)

\* extract_dir=None
NoneDir == << "None" >>

\* the caller-supplied extraction directory used by the callers
DirX == << "x" >>

ProcessedRoot ==
    <<"d", "a", "t", "a", "/", "p", "r", "o", "c", "e", "s", "s", "e", "d">>

\* os.path.join(a, b) for a relative b
PathJoin(a, b) == a \o <<"/">> \o b

\* every archive extracted straight into data/processed
DerivedDirShared(file_path) == ProcessedRoot

\* lines 50-53: <project root>/data/processed/<archive base name>
DerivedDir(file_path) ==
    PathJoin(ProcessedRoot, Splitext(Basename(file_path))[1])

Dirs == {DirX} \cup {DerivedDir(p) : p \in ArchivePaths}

NoDir == [exists |-> FALSE, files |-> [n \in Names |-> Absent]]
EmptyDir == [exists |-> TRUE, files |-> [n \in Names |-> Absent]]
StaleDir == [exists |-> TRUE,
             files |-> [n \in Names |-> IF n = NameOld THEN File(TextXY1) ELSE Absent]]

\* os.makedirs(target_dir, exist_ok=True)
MakeDirs(fsv, d) == [fsv EXCEPT ![d].exists = TRUE]

\* a member written in append mode onto a file of the same name
ExtractMemberAppend(fsv, d, m) ==
    [fsv EXCEPT ![d].exists = TRUE,
                ![d].files[m.top] = IF m.nested THEN SubDir
                                    ELSE File(@.text \o m.text)]

\* ZipFile._extract_member: creates the parent directories, then writes the
\* member, replacing a file of the same name
ExtractMember(fsv, d, m) ==
    [fsv EXCEPT ![d].exists = TRUE,
                ![d].files[m.top] = IF m.nested THEN SubDir ELSE File(m.text)]

\* os.listdir(target_dir): the names present, in the file system's order
OsListdir(fsv, d, ord) ==
    SelectSeq(ord, LAMBDA n : fsv[d].files[n].kind # "absent")

\* line 68
DataFiles(extracted_files) == SelectSeq(extracted_files, IsDataFile)

\* line 72
DataPaths(target_dir, data_files) ==
    [i \in 1..Len(data_files) |-> PathJoin(target_dir, data_files[i])]

\* reading the file at data_paths[i], which is data_files[i] in target_dir
ReadPath(fsv, d, name) == ReadDataFile(PathJoin(d, name), fsv[d].files[name].text)

(* ------------------------------ outcomes ------------------------------- *)

Raised(type, msg) == [kind |-> "error", type |-> type, msg |-> msg, df |-> NoTable]
Returned(df) == [kind |-> "table", type |-> "", msg |-> "", df |-> df]
NoOutcome == [kind |-> "none", type |-> "", msg |-> "", df |-> NoTable]

\* line 41
NotFoundError == Raised("FileNotFoundError", "The file does not exist.")
\* line 43
InvalidFormatError == Raised("ValueError", "The file is not a valid zip file.")
\* line 70
NoDataFoundError == Raised("ValueError", "No CSV/TSV files found in the zip archive.")
\* lines 83-85
MultipleFilesError == Raised("ValueError", "Multiple data files found in the zip archive")
\* os.listdir of a directory that does not exist (line 63)
ListdirError == Raised("FileNotFoundError", "No such file or directory")
\* line 110
UnsupportedTypeError == Raised("ValueError", "No ingestor available for the file type")

(* ------------------------- ZipDataIngestor.ingest ---------------------- *)

Callers == {1, 2}

Idle(fsv) ==
    [pc |-> "idle", file_path |-> <<>>, extract_dir |-> NoneDir, concat |-> TRUE,
     target_dir |-> <<>>, todo |-> <<>>, extracted_files |-> <<>>,
     data_files |-> <<>>, data_paths |-> <<>>, dfs |-> <<>>, reads |-> <<>>,
     outcome |-> NoOutcome, fs_before |-> fsv,
     has_prev |-> FALSE, prev_args |-> <<>>, prev_outcome |-> NoOutcome]

Args(k) == <<k.file_path, k.extract_dir, k.concat>>

\* the archive judged by its name instead of its content
ValidateByName(file_path) ==
    IF ~PathExists(file_path) THEN NotFoundError
    ELSE IF LowerStr(Splitext(file_path)[2]) # DotZip THEN InvalidFormatError
    ELSE NoOutcome

\* lines 40-43: the two checks made before anything else
Validate(file_path) ==
    IF ~PathExists(file_path) THEN NotFoundError
    ELSE IF ~IsZipfile(file_path) THEN InvalidFormatError
    ELSE NoOutcome

\* lines 49-58: the extraction directory
TargetDir(file_path, extract_dir) ==
    IF extract_dir = NoneDir THEN DerivedDir(file_path) ELSE extract_dir

\* lines 49-58: only the derived directory is created here
PrepareTarget(fsv, file_path, extract_dir) ==
    IF extract_dir = NoneDir
    THEN MakeDirs(fsv, DerivedDir(file_path))
    ELSE fsv

\* several files and concat=False: the first file is taken silently
DispatchFirstFile(data_paths, concat) ==
    IF Len(data_paths) = 0 THEN "raise_no_data"
    ELSE IF Len(data_paths) = 1 \/ ~concat THEN "read_single"
    ELSE "read_all"

\* lines 69-85: what follows the listing
Dispatch(data_paths, concat) ==
    IF Len(data_paths) = 0 THEN "raise_no_data"
    ELSE IF Len(data_paths) = 1 THEN "read_single"
    ELSE IF ~concat THEN "raise_multiple"
    ELSE "read_all"

\* the frames stacked with their own row labels kept
ConcatKeepIndex(dfs) == PdConcat(dfs, FALSE)

\* line 94
ConcatAll(dfs) == PdConcat(dfs, TRUE)

\* ingest(file_path, extract_dir, concat=...) is entered: lines 38-43
CallIngest(c) ==
    /\ call[c].pc \in {"idle", "done"}
    /\ left[c] > 0
    /\ \E file_path \in ArchivePaths, extract_dir \in {NoneDir, DirX}, concat \in BOOLEAN :
          LET v == Validate(file_path)
              k == [Idle(fs) EXCEPT
                       !.file_path = file_path,
                       !.extract_dir = extract_dir,
                       !.concat = concat,
                       !.has_prev = (call[c].pc = "done"),
                       !.prev_args = IF call[c].pc = "done" THEN Args(call[c]) ELSE <<>>,
                       !.prev_outcome = call[c].outcome]
          IN  call' = [call EXCEPT ![c] =
                         IF v # NoOutcome
                         THEN [k EXCEPT !.pc = "done", !.outcome = v]
                         ELSE [k EXCEPT !.pc = "resolve"]]
    /\ left' = [left EXCEPT ![c] = @ - 1]
    /\ UNCHANGED <<fs, fs0, order, fpath, fresult>>

\* lines 49-60: the target is chosen and the archive opened
ResolveTarget(c) ==
    /\ call[c].pc = "resolve"
    /\ fs' = PrepareTarget(fs, call[c].file_path, call[c].extract_dir)
    /\ call' = [call EXCEPT ![c] =
                  [@ EXCEPT !.pc = "extract",
                            !.target_dir = TargetDir(call[c].file_path, call[c].extract_dir),
                            !.todo = ZipMembers(call[c].file_path)]]
    /\ UNCHANGED <<fs0, order, left, fpath, fresult>>

\* line 61: extractall writes the next member
ExtractNext(c) ==
    /\ call[c].pc = "extract"
    /\ call[c].todo # <<>>
    /\ fs' = ExtractMember(fs, call[c].target_dir, Head(call[c].todo))
    /\ call' = [call EXCEPT ![c].todo = Tail(@)]
    /\ UNCHANGED <<fs0, order, left, fpath, fresult>>

\* lines 63-85: the listing, the selection of data files and the branch
Discover(c) ==
    /\ call[c].pc = "extract"
    /\ call[c].todo = <<>>
    /\ LET d == call[c].target_dir
           extracted_files == OsListdir(fs, d, order)
           data_files == DataFiles(extracted_files)
           data_paths == DataPaths(d, data_files)
           to == Dispatch(data_paths, call[c].concat)
       IN  call' = [call EXCEPT ![c] =
              IF ~fs[d].exists
              THEN [@ EXCEPT !.pc = "done", !.outcome = ListdirError]
              ELSE [@ EXCEPT
                      !.extracted_files = extracted_files,
                      !.data_files = data_files,
                      !.data_paths = data_paths,
                      !.pc = IF to \in {"raise_no_data", "raise_multiple"}
                             THEN "done" ELSE to,
                      !.outcome = IF to = "raise_no_data" THEN NoDataFoundError
                                  ELSE IF to = "raise_multiple" THEN MultipleFilesError
                                  ELSE NoOutcome]]
    /\ UNCHANGED <<fs, fs0, order, left, fpath, fresult>>

\* lines 73-79: the only data file is parsed and returned
ReadSingle(c) ==
    /\ call[c].pc = "read_single"
    /\ LET k == call[c]
           df == ReadPath(fs, k.target_dir, k.data_files[1])
       IN  call' = [call EXCEPT ![c] =
              [@ EXCEPT !.pc = "done",
                        !.reads = Append(@, k.data_paths[1]),
                        !.outcome = Returned(df)]]
    /\ UNCHANGED <<fs, fs0, order, left, fpath, fresult>>

\* lines 88-92: one turn of the loop over data_paths
ReadNext(c) ==
    /\ call[c].pc = "read_all"
    /\ Len(call[c].dfs) < Len(call[c].data_paths)
    /\ LET k == call[c]
           i == Len(k.dfs) + 1
           df == ReadPath(fs, k.target_dir, k.data_files[i])
       IN  call' = [call EXCEPT ![c] =
              [@ EXCEPT !.reads = Append(@, k.data_paths[i]),
                        !.dfs = Append(@, df)]]
    /\ UNCHANGED <<fs, fs0, order, left, fpath, fresult>>

\* lines 94-95
ConcatReturn(c) ==
    /\ call[c].pc = "read_all"
    /\ Len(call[c].dfs) = Len(call[c].data_paths)
    /\ call' = [call EXCEPT ![c] =
                  [@ EXCEPT !.pc = "done", !.outcome = Returned(ConcatAll(call[c].dfs))]]
    /\ UNCHANGED <<fs, fs0, order, left, fpath, fresult>>

\* line 61: extractall, member after member
RECURSIVE ExtractAll(_, _, _)
ExtractAll(fsv, d, members) ==
    IF members = <<>> THEN fsv
    ELSE ExtractAll(ExtractMember(fsv, d, Head(members)), d, Tail(members))

\* the files one undisturbed call leaves: lines 49-61
FilesAfter(fsv, file_path, extract_dir) ==
    ExtractAll(PrepareTarget(fsv, file_path, extract_dir),
               TargetDir(file_path, extract_dir), ZipMembers(file_path))

\* the outcome of one undisturbed call: lines 38-95 run from start to end
IngestAlone(fsv, ord, file_path, extract_dir, concat) ==
    LET v == Validate(file_path)
        d == TargetDir(file_path, extract_dir)
        after == FilesAfter(fsv, file_path, extract_dir)
        data_files == DataFiles(OsListdir(after, d, ord))
        to == Dispatch(DataPaths(d, data_files), concat)
    IN  IF v # NoOutcome THEN v
        ELSE IF ~after[d].exists THEN ListdirError
        ELSE CASE to = "raise_no_data" -> NoDataFoundError
               [] to = "raise_multiple" -> MultipleFilesError
               [] to = "read_single" -> Returned(ReadPath(after, d, data_files[1]))
               [] OTHER -> Returned(ConcatAll(
                      [i \in 1..Len(data_files) |-> ReadPath(after, d, data_files[i])]))

(* ------------------------- DataIngestionFactory ------------------------ *)

ZipDataIngestor == [kind |-> "ingestor", type |-> "ZipDataIngestor", msg |-> "", df |-> NoTable]

\* lines 106-110
GetIngestor(file_extension) ==
    IF file_extension = DotZip THEN ZipDataIngestor ELSE UnsupportedTypeError

\* the extension compared without lower()
GetIngestorForPathCaseSensitive(file_path) == GetIngestor(Splitext(file_path)[2])

\* lines 112-116
GetIngestorForPath(file_path) == GetIngestor(LowerStr(Splitext(file_path)[2]))

PathChars == {"/", ".", "z", "i", "p", "Z"}

FactoryInputs == UNION {[1..n -> PathChars] : n \in 0..MaxPathLen}

NoCall == [op |-> "none", result |-> NoOutcome]

CallGetIngestor ==
    /\ fresult.op = "none"
    /\ fpath \in FactoryInputs
    /\ fresult' = [op |-> "get_ingestor", result |-> GetIngestor(fpath)]
    /\ UNCHANGED <<fs, fs0, order, call, left, fpath>>

CallGetIngestorForPath ==
    /\ fresult.op = "none"
    /\ fpath \in FactoryInputs
    /\ fresult' = [op |-> "get_ingestor_for_path", result |-> GetIngestorForPath(fpath)]
    /\ UNCHANGED <<fs, fs0, order, call, left, fpath>>

(* --------------------------- specifications ---------------------------- *)

\* two listing orders of the file system, neither of them sorted
ListingOrders ==
    { <<NameB, NameOld, NameA, NameSub, NameT, NameR>>,
      <<NameT, NameA, NameR, NameOld, NameSub, NameB>> }

InitialDirX == {NoDir, EmptyDir, StaleDir}

InitFiles ==
    /\ fs \in {[d \in Dirs |-> IF d = DirX THEN x ELSE NoDir] : x \in InitialDirX}
    /\ fs0 = fs
    /\ order \in ListingOrders
    /\ call = [c \in Callers |-> Idle(fs)]

\* one caller making MaxCalls calls one after the other
Init ==
    /\ InitFiles
    /\ left = [c \in Callers |-> IF c = 1 THEN MaxCalls ELSE 0]
    /\ fpath = <<>>
    /\ fresult = [op |-> "off", result |-> NoOutcome]

\* two callers, one call each, interleaved
InitConc ==
    /\ InitFiles
    /\ left = [c \in Callers |-> 1]
    /\ fpath = <<>>
    /\ fresult = [op |-> "off", result |-> NoOutcome]

InitFactory ==
    /\ fs = [d \in Dirs |-> NoDir]
    /\ fs0 = fs
    /\ order = <<NameB, NameOld, NameA, NameSub, NameT, NameR>>
    /\ call = [c \in Callers |-> Idle(fs)]
    /\ left = [c \in Callers |-> 0]
    /\ fpath \in FactoryInputs
    /\ fresult = NoCall

Next ==
    \E c \in Callers :
        \/ CallIngest(c)
        \/ ResolveTarget(c)
        \/ ExtractNext(c)
        \/ Discover(c)
        \/ ReadSingle(c)
        \/ ReadNext(c)
        \/ ConcatReturn(c)

NextFactory ==
    \/ CallGetIngestor
    \/ CallGetIngestorForPath

Spec == Init /\ [][Next]_vars

SpecConc == InitConc /\ [][Next]_vars

SpecFactory == InitFactory /\ [][NextFactory]_vars

(* ------------------------------- claims -------------------------------- *)

\* the archive's base name, as line 51 computes it
BaseName(file_path) == Splitext(Basename(file_path))[1]

\* the members of the archive whose own name marks a CSV or TSV file
DataMembers(file_path) ==
    SelectSeq(ZipMembers(file_path), LAMBDA m : IsDataFile(m.leaf))

\* the rows of the frames before frame i
RECURSIVE RowsBefore(_, _)
RowsBefore(dfs, i) ==
    IF i <= 1 THEN 0 ELSE RowsBefore(dfs, i - 1) + Len(dfs[i - 1].rows)

\* C1: a call on a path that does not exist ends at once with NotFoundError,
\* a call on an existing file that is not a ZIP ends at once with
\* InvalidFormatError, and in both cases no directory was created and no
\* member extracted: the files are those the call found.
C1_ValidationFailsFirst ==
    \A c \in Callers :
        /\ (call[c].pc # "idle" /\ ~PathExists(call[c].file_path))
              => /\ call[c].pc = "done"
                 /\ call[c].outcome = NotFoundError
                 /\ fs = call[c].fs_before
        /\ (call[c].pc # "idle" /\ PathExists(call[c].file_path)
                                /\ ~IsZipfile(call[c].file_path))
              => /\ call[c].pc = "done"
                 /\ call[c].outcome = InvalidFormatError
                 /\ fs = call[c].fs_before

C1_Witness ==
    /\ call[1].pc = "done"
    /\ call[1].file_path = PathText
    /\ call[1].outcome = InvalidFormatError
    /\ call[1].has_prev
    /\ call[1].prev_args[1] = PathMissing
    /\ call[1].prev_outcome = NotFoundError

\* C2 (as claimed): a call on a valid archive without any .csv/.tsv member
\* ends with NoDataFoundError, whatever the extraction directory held.
C2_NoDataAlwaysRaises ==
    \A c \in Callers :
        (/\ call[c].pc = "done"
         /\ IsZipfile(call[c].file_path)
         /\ DataMembers(call[c].file_path) = <<>>)
            => call[c].outcome = NoDataFoundError

\* C3: once two or more data files are discovered and concat is false, the
\* call has ended with MultipleFilesError and has parsed no file.
C3_MultipleFilesRaises ==
    \A c \in Callers :
        (/\ call[c].pc # "idle"
         /\ Len(call[c].data_files) >= 2
         /\ ~call[c].concat)
            => /\ call[c].pc = "done"
               /\ call[c].outcome = MultipleFilesError
               /\ call[c].reads = <<>>
               /\ call[c].dfs = <<>>

C3_Witness ==
    /\ call[1].pc = "done"
    /\ ~call[1].concat
    /\ Len(call[1].data_files) = 3
    /\ call[1].outcome = MultipleFilesError

\* C4: a finished call that discovered n >= 2 data files with concat true
\* has parsed each discovered path once, in discovery order, and returns a
\* table with the files' rows in that order, as many rows as the files have
\* together, the row index 0..N-1, and, when all files have the same
\* columns, exactly the first file's columns.
C4_ConcatInDiscoveryOrder ==
    \A c \in Callers :
        LET k == call[c]
            R == k.outcome.df
            F == k.dfs
        IN  (k.pc = "done" /\ Len(k.data_files) >= 2 /\ k.concat)
            => /\ k.outcome.kind = "table"
               /\ k.reads = k.data_paths
               /\ Len(F) = Len(k.data_files)
               /\ \A i \in 1..Len(F) :
                     F[i] = ReadPath(fs, k.target_dir, k.data_files[i])
               /\ Len(R.rows) = RowsBefore(F, Len(F) + 1)
               /\ R.index = [i \in 1..Len(R.rows) |-> i - 1]
               /\ \A i \in 1..Len(F) : \A r \in 1..Len(F[i].rows) :
                     \A j \in 1..Len(F[i].columns) :
                        \E q \in 1..Len(R.columns) :
                           /\ R.columns[q] = F[i].columns[j]
                           /\ R.rows[RowsBefore(F, i) + r][q] = F[i].rows[r][j]
               /\ (\A i \in 1..Len(F) : F[i].columns = F[1].columns)
                     => R.columns = F[1].columns

C4_Witness ==
    /\ call[1].pc = "done"
    /\ call[1].concat
    /\ call[1].data_files = <<NameB, NameA>>
    /\ call[1].outcome.kind = "table"
    /\ Len(call[1].outcome.df.rows) = 3
    /\ call[1].outcome.df.columns = << <<"x">>, <<"y">> >>

\* C5 (as claimed): a call on a valid archive with exactly one .csv/.tsv
\* member returns that file's table, whatever the extraction directory held
\* and whatever the concat flag.
C5_SingleFileReturned ==
    \A c \in Callers :
        (/\ call[c].pc = "done"
         /\ IsZipfile(call[c].file_path)
         /\ Len(DataMembers(call[c].file_path)) = 1)
            => LET m == DataMembers(call[c].file_path)[1]
               IN  call[c].outcome = Returned(ReadDataFile(m.leaf, m.text))

\* C6 (as claimed): after a call that passed validation the extraction
\* directory exists and holds every member of the archive; it is the
\* caller's extract_dir when given, else data/processed/<base name>.
C6_TargetExistsAndFilled ==
    \A c \in Callers :
        (call[c].pc = "done" /\ IsZipfile(call[c].file_path))
            => LET d == call[c].target_dir
               IN  /\ d = IF call[c].extract_dir # NoneDir
                          THEN call[c].extract_dir
                          ELSE PathJoin(ProcessedRoot, BaseName(call[c].file_path))
                   /\ fs[d].exists
                   /\ \A i \in 1..Len(ZipMembers(call[c].file_path)) :
                         fs[d].files[ZipMembers(call[c].file_path)[i].top].kind # "absent"

\* C7 (as claimed): a call without extract_dir extracts to a temporary
\* directory, which no longer exists once the call has returned or raised.
C7_TemporaryDirRemoved ==
    \A c \in Callers :
        (/\ call[c].pc = "done"
         /\ call[c].extract_dir = NoneDir
         /\ IsZipfile(call[c].file_path))
            => ~fs[call[c].target_dir].exists

\* C8: a call that repeats the previous call (same valid archive, same
\* caller-supplied extract_dir, same concat flag) ends with the outcome the
\* previous call ended with.
C8_Idempotent ==
    (/\ call[1].pc = "done"
     /\ call[1].has_prev
     /\ call[1].prev_args = Args(call[1])
     /\ call[1].extract_dir = DirX
     /\ IsZipfile(call[1].file_path))
        => call[1].outcome = call[1].prev_outcome

C8_Witness ==
    /\ call[1].pc = "done"
    /\ call[1].has_prev
    /\ call[1].prev_args = Args(call[1])
    /\ call[1].extract_dir = DirX
    /\ call[1].file_path = PathTwo
    /\ fs0[DirX] = StaleDir
    /\ call[1].outcome.kind = "table"
    /\ Len(call[1].outcome.df.rows) = 4

\* C9: when the calls that run together all use the derived directory and
\* their archives have different base names, they use different directories,
\* and a finished call has the outcome, and has left in its directory the
\* files, of the same call run alone from the initial files.
C9_DistinctBaseNamesIsolated ==
    \A c \in Callers : \A d \in Callers \ {c} :
        (/\ call[c].pc = "done"
         /\ IsZipfile(call[c].file_path)
         /\ call[c].extract_dir = NoneDir
         /\ call[d].pc # "idle"
         /\ call[d].extract_dir = NoneDir
         /\ BaseName(call[d].file_path) # BaseName(call[c].file_path))
            => /\ call[d].target_dir # call[c].target_dir
               /\ call[c].outcome =
                     IngestAlone(fs0, order, call[c].file_path, NoneDir, call[c].concat)
               /\ fs[call[c].target_dir] =
                     FilesAfter(fs0, call[c].file_path, NoneDir)[call[c].target_dir]

C9_Witness ==
    /\ call[1].pc = "done"
    /\ call[2].pc = "done"
    /\ call[1].extract_dir = NoneDir
    /\ call[2].extract_dir = NoneDir
    /\ call[1].file_path = PathSingle
    /\ call[2].file_path = PathTwo
    /\ call[1].outcome.kind = "table"
    /\ call[2].outcome.kind = "table"
    /\ Len(call[1].outcome.df.rows) = 2
    /\ Len(call[2].outcome.df.rows) = 3

\* the last component of p ends, in any letter case, in ".zip" and has a
\* character other than a dot before that
HasZipExtension(p) ==
    LET n == Len(p)
    IN  /\ n >= 5
        /\ LowerStr(SubSeq(p, n - 3, n)) = DotZip
        /\ \E k \in 1..(n - 4) :
              /\ p[k] \notin {".", "/"}
              /\ \A j \in k..(n - 4) : p[j] # "/"

\* C10: get_ingestor_for_path returns the ZIP ingestor exactly for the paths
\* whose final extension is .zip in any letter case and raises
\* UnsupportedTypeError for every other path; get_ingestor returns it for the
\* string ".zip" and raises UnsupportedTypeError for every other string.
C10_DispatchFailsClosed ==
    /\ fresult.op = "get_ingestor_for_path"
          => /\ fresult.result \in {ZipDataIngestor, UnsupportedTypeError}
             /\ fresult.result = ZipDataIngestor <=> HasZipExtension(fpath)
    /\ fresult.op = "get_ingestor"
          => /\ fresult.result \in {ZipDataIngestor, UnsupportedTypeError}
             /\ fresult.result = ZipDataIngestor <=> fpath = DotZip

C10_Witness ==
    /\ fresult.op = "get_ingestor_for_path"
    /\ fresult.result = ZipDataIngestor
    /\ fpath = <<"z", ".", "Z", "i", "p">>

====
